---- MODULE Spec2Model ----
(***************************************************************************)
(* A model of the Financial Modeling Prep MCP server (src/server.py).      *)
(*                                                                         *)
(* Every tool is an `async def` that never awaits: it reads the credential *)
(* from the process environment, validates its arguments, performs its     *)
(* blocking HTTP GET(s), reshapes the payload and returns one string.  A   *)
(* tool invocation is therefore one atomic step.  The state records the    *)
(* invocation in progress: its arguments, the clock reading and upstream   *)
(* responses it consumed, the requests it issued, and how it ended.  The   *)
(* process keeps nothing of an invocation; `history` is an observer's      *)
(* record of how the earlier invocations ended, which no handler reads.    *)
(***************************************************************************)
EXTENDS Integers, Sequences, FiniteSets, TLC

VARIABLES
    environ,    \* value of FMP_API_KEY in the process environment
    pc,         \* "idle" | "called" | "done"
    call,       \* the tool call being served: tool name and keyword arguments
    now,        \* pd.Timestamp.now() as read by the handler
    responses,  \* upstream responses consumed by the handler, in order
    requests,   \* outbound HTTP requests issued by the handler, in order
    outcome,    \* "none" | "return" | "raise"
    result,     \* the returned string, or the exception that escaped
    history     \* how the invocations completed so far ended: "ok" | "failed" | "nokey"

vars == <<environ, pc, call, now, responses, requests, outcome, result, history>>

-----------------------------------------------------------------------------
(* Bounds of the model.                                                    *)

\* Longest upstream list (rows, news items, option items) that is enumerated.
MaxRows == 2

-----------------------------------------------------------------------------
(* Python values.                                                          *)

\* os.environ.get returns None for an unset variable.
None == "<None>"

\* `not api_key`: None and the empty string are both falsy.
MissingKey_EmptyIsSet(api_key) == api_key = None

MissingKey(api_key) == api_key = None \/ api_key = ""

\* `not s` for a str argument.
Empty(s) == s = ""

\* str.lower() on the sub-type spellings the model enumerates.
Lower(s) ==
    CASE s = "Dividends" -> "dividends"
      [] s = "EARNINGS" -> "earnings"
      [] s = "Splits" -> "splits"
      [] s = "IPOS_Calendar" -> "ipos_calendar"
      [] s = "Single" -> "single"
      [] s = "ALL" -> "all"
      [] s = "Search" -> "search"
      [] s = "Latest" -> "latest"
      [] s = "Executives" -> "executives"
      [] s = "Benchmark" -> "benchmark"
      [] s = "DCF" -> "dcf"
      [] s = "Economic_Indicators" -> "economic_indicators"
      [] s = "Treasury_Rates" -> "treasury_rates"
      [] s = "CIK" -> "cik"
      [] s = "ETF" -> "etf"
      [] s = "Snapshot" -> "snapshot"
      [] s = "Summary" -> "summary"
      [] s = "News" -> "news"
      [] s = "Latest_News" -> "latest_news"
      [] s = "Puts" -> "puts"
      [] s = "CALL" -> "call"
      [] s = "Call" -> "call"
      [] s = "PUT" -> "put"
      [] s = "Put" -> "put"
      [] OTHER -> s

-----------------------------------------------------------------------------
(* Time.  A timestamp is a number of seconds since 2000-01-01T00:00:00.    *)

SecondsPerDay == 86400

Days(n) == n * SecondsPerDay

IsLeap(y) == (y % 4 = 0 /\ y % 100 # 0) \/ y % 400 = 0

DaysInYear(y) == IF IsLeap(y) THEN 366 ELSE 365

RECURSIVE YearStartFrom(_, _, _)
\* First day (counted from 2000-01-01) of the year containing day d, walking
\* forward from year y which starts on day s.
YearStartFrom(d, y, s) ==
    IF d < s + DaysInYear(y) THEN s ELSE YearStartFrom(d, y + 1, s + DaysInYear(y))

\* Timestamp.replace(month=1, day=1): the date becomes January 1 of the same
\* year, the time of day is left as it is.
ReplaceMonthDay_1_1(ts) ==
    Days(YearStartFrom(ts \div SecondsPerDay, 2000, 0)) + (ts % SecondsPerDay)

\* What normalizing to midnight as well would give.
ReplaceMonthDay_1_1_Midnight(ts) ==
    Days(YearStartFrom(ts \div SecondsPerDay, 2000, 0))

\* A date as upstream writes it (the daily endpoint "2024-03-04", the intraday
\* endpoint "2024-03-04 15:30:00"), a parsed datetime64 value, and a date as
\* to_json(date_format="iso") writes it.
DateStr(ts, intraday) ==
    [fmt |-> IF intraday THEN "YYYY-MM-DD HH:MM:SS" ELSE "YYYY-MM-DD", ts |-> ts]

NoDate == [fmt |-> "missing", ts |-> 0]

NaT == [fmt |-> "NaT", ts |-> 0]

\* pd.to_datetime on one cell.
ToDatetime(d) == IF d.fmt = "missing" THEN NaT ELSE [fmt |-> "datetime64", ts |-> d.ts]

\* date_format="iso" on one cell: NaT is written as null.
IsoFormat(d) ==
    IF d.fmt = "datetime64" THEN [fmt |-> "YYYY-MM-DDTHH:MM:SS.sss", ts |-> d.ts]
    ELSE [fmt |-> "null", ts |-> 0]

-----------------------------------------------------------------------------
(* JSON values as resp.json() yields them.                                 *)
(* A body is a list, an object or null.  `keys` are an object's keys and   *)
(* `items` the elements of a list, or of the list an object holds under    *)
(* "historical" / "expirations".  An element is an object (t = "dict",     *)
(* with the keys it has and their values), a string or null.               *)

JList(items) == [t |-> "list", keys |-> {}, items |-> items]

JDict(keys, items) == [t |-> "dict", keys |-> keys, items |-> items]

JNull == [t |-> "null", keys |-> {}, items |-> <<>>]

BlankItem ==
    [t |-> "dict", keys |-> {}, date |-> NoDate, v |-> "", title |-> "",
     text |-> "", url |-> "", expirationDate |-> "", optionType |-> ""]

ItemNull == [BlankItem EXCEPT !.t = "null"]

ItemStr(s) == [BlankItem EXCEPT !.t = "str", !.v = s]

PriceKeys == {"date", "open", "high", "low", "close", "volume"}

\* A historical-price row: `v` stands for the row's price and volume values.
PriceRow(ts, v, keys, intraday) ==
    [BlankItem EXCEPT !.keys = keys,
                      !.date = IF "date" \in keys THEN DateStr(ts, intraday) ELSE NoDate,
                      !.v = v]

NewsItem(keys, id) ==
    [BlankItem EXCEPT !.keys = keys,
                      !.title = IF "title" \in keys THEN "T" \o id ELSE "",
                      !.text = IF "text" \in keys THEN "S" \o id ELSE "",
                      !.url = IF "url" \in keys THEN "U" \o id ELSE ""]

OptionItem(keys, exp, side) ==
    [BlankItem EXCEPT !.keys = keys,
                      !.expirationDate = IF "expirationDate" \in keys THEN exp ELSE "",
                      !.optionType = IF "optionType" \in keys THEN side ELSE ""]

-----------------------------------------------------------------------------
(* Strings returned to the caller.                                         *)
(* `text` holds the literal pieces of the string in order; a JSON result   *)
(* holds the first character json.dumps / to_json writes and, under        *)
(* `json`, the value that was serialized.  `exc` names an exception that   *)
(* escaped the handler instead of a string being returned.                 *)

Text(parts) == [text |-> parts, json |-> JNull, exc |-> ""]

Err(parts) == Text(<<"Error:">> \o parts)

KeyNotSet == Err(<<"FMP_API_KEY environment variable not set.">>)

JsonFirst(v) ==
    CASE v.t = "list" -> "["
      [] v.t = "dict" -> "{"
      [] v.t = "str" -> "\""
      [] OTHER -> "null"

\* json.dumps(v)
JsonDumps(v) == [text |-> <<JsonFirst(v)>>, json |-> v, exc |-> ""]

Exception(name) == [text |-> <<>>, json |-> JNull, exc |-> name]

NoResult == Text(<<>>)

\* How a handler ended: the requests it issued, and the string it returned or
\* the exception that escaped it.
Returned(reqs, res) == [requests |-> reqs, outcome |-> "return", result |-> res]

Raised(reqs, name) == [requests |-> reqs, outcome |-> "raise", result |-> Exception(name)]

-----------------------------------------------------------------------------
(* The upstream call: requests.get(url, params=..., timeout=10),           *)
(* resp.raise_for_status(), resp.json().                                   *)

ApiV3 == "https://financialmodelingprep.com/api/v3"

ApiV4 == "https://financialmodelingprep.com/api/v4"

Stable == "https://financialmodelingprep.com/stable"

Timeout == 10

Get(url, params) == [method |-> "GET", url |-> url, params |-> params, timeout |-> Timeout]

\* An upstream response: the exception the call raises (ConnectionError or
\* Timeout from requests.get, HTTPError from raise_for_status,
\* JSONDecodeError from resp.json), or "ok" and the parsed body.
Response(status, body) == [status |-> status, body |-> body]

Failed(resp) == resp.status # "ok"

-----------------------------------------------------------------------------
(* get_historical_stock_prices                                             *)

IntradayIntervals == {"1min", "5min", "15min", "30min", "1hour", "4hour"}

\* period_map, in days
period_map ==
    ("1d" :> 1) @@ ("5d" :> 5) @@ ("1mo" :> 30) @@ ("3mo" :> 90) @@ ("6mo" :> 180)
    @@ ("1y" :> 365) @@ ("2y" :> 730) @@ ("5y" :> 1825) @@ ("10y" :> 3650)

NoStart == [some |-> FALSE, ts |-> 0]

StartAt(ts) == [some |-> TRUE, ts |-> ts]

\* A window start that falls back to the default period for an unknown one.
WindowStart_UnknownIsDefault(period, t) ==
    IF period = "ytd" THEN StartAt(ReplaceMonthDay_1_1(t))
    ELSE IF period = "max" THEN NoStart
    ELSE IF period \in DOMAIN period_map THEN StartAt(t - Days(period_map[period]))
    ELSE StartAt(t - Days(period_map["1mo"]))

\* `start`: the beginning of the window the period asks for, None for no window.
WindowStart(period, t) ==
    IF period = "ytd" THEN StartAt(ReplaceMonthDay_1_1(t))
    ELSE IF period # "max" /\ period \in DOMAIN period_map
         THEN StartAt(t - Days(period_map[period]))
         ELSE NoStart

RECURSIVE UnionKeys(_)
UnionKeys(items) ==
    IF items = <<>> THEN {} ELSE Head(items).keys \cup UnionKeys(Tail(items))

AllDicts(items) == \A i \in 1..Len(items) : items[i].t = "dict"

\* pd.DataFrame(data): the frame's columns and rows, or the exception the
\* constructor raises.  A list of objects gives one row per object and the
\* union of their keys as columns (a missing cell is NaN); a list of scalars
\* gives the single column 0; an object of scalars cannot be framed; an object
\* holding a list gives one row per element; null and {} give an empty frame.
DataFrame(data) ==
    CASE data.t = "list" /\ AllDicts(data.items) ->
            [exc |-> "", columns |-> UnionKeys(data.items), rows |-> data.items]
      [] data.t = "list" ->
            [exc |-> "", columns |-> {"0"}, rows |-> data.items]
      [] data.t = "dict" /\ data.keys = {} ->
            [exc |-> "", columns |-> {}, rows |-> <<>>]
      [] data.t = "dict" /\ data.keys \cap {"historical", "expirations"} # {} ->
            [exc |-> "", columns |-> data.keys, rows |-> data.items]
      [] data.t = "dict" ->
            [exc |-> "ValueError", columns |-> {}, rows |-> <<>>]
      [] OTHER ->
            [exc |-> "", columns |-> {}, rows |-> <<>>]

\* df.empty
DfEmpty(df) == df.rows = <<>> \/ df.columns = {}

\* df.rename(columns={"date": "Date"}) when "date" is a column
RenameDate(columns) ==
    IF "date" \in columns THEN (columns \ {"date"}) \cup {"Date"} ELSE columns

Selected == <<"Date", "open", "high", "low", "close", "volume">>

\* Column names left as upstream spells them.
Title_Unchanged(c) == c

\* str.title() on the selected column names
Title(c) ==
    CASE c = "open" -> "Open"
      [] c = "high" -> "High"
      [] c = "low" -> "Low"
      [] c = "close" -> "Close"
      [] c = "volume" -> "Volume"
      [] OTHER -> c

Range(s) == {s[i] : i \in 1..Len(s)}

\* Lines 93-99 on one row: keep the selected columns under their title-cased
\* names and parse the date.
Reshape(row) ==
    [row EXCEPT !.keys = {Title(c) : c \in Range(Selected)},
                !.date = ToDatetime(row.date)]

\* A filter that sorts what it keeps newest first.
RECURSIVE SortedDesc(_)
SortedDesc(rows) ==
    IF rows = <<>> THEN <<>>
    ELSE LET i == CHOOSE i \in 1..Len(rows) :
                      \A j \in 1..Len(rows) :
                          rows[j].date.ts < rows[i].date.ts
                          \/ (rows[j].date.ts = rows[i].date.ts /\ i <= j)
         IN <<rows[i]>> \o SortedDesc(SubSeq(rows, 1, i - 1) \o SubSeq(rows, i + 1, Len(rows)))

InWindow(row, start) == row.date.fmt = "datetime64" /\ row.date.ts >= start.ts

FilterRows_Sorting(rows, start) ==
    SortedDesc(SelectSeq(rows, LAMBDA r : InWindow(r, start)))

\* df[df["Date"] >= start]: NaT compares false.
FilterRows(rows, start) == SelectSeq(rows, LAMBDA r : InWindow(r, start))

\* to_json(orient="records", date_format="iso") on one row
ToJsonRow(row, reshaped) ==
    IF reshaped THEN [row EXCEPT !.date = IsoFormat(row.date)]
    ELSE [BlankItem EXCEPT !.keys = {}]

\* Lines 92-123: frame the payload, reshape it, filter it to the window and
\* give the rows to_json writes, or the exception that escapes.
HistNormalize(data, period, t) ==
    LET df == DataFrame(data)
        empty == DfEmpty(df)
        columns == RenameDate(df.columns)
        start == WindowStart(period, t)
    IN  IF df.exc # "" THEN [exc |-> df.exc, rows |-> <<>>]
        ELSE IF ~empty /\ ~(Range(Selected) \subseteq columns)
             THEN [exc |-> "KeyError", rows |-> <<>>]
        ELSE LET rows == IF empty THEN df.rows
                         ELSE [i \in 1..Len(df.rows) |-> Reshape(df.rows[i])]
                 kept == IF start.some /\ ~empty THEN FilterRows(rows, start) ELSE rows
             IN  [exc |-> "",
                  rows |-> [i \in 1..Len(kept) |-> ToJsonRow(kept[i], ~empty)]]

get_historical_stock_prices(api_key, a, t, rs) ==
    IF MissingKey(api_key) THEN Returned(<<>>, KeyNotSet)
    ELSE
    LET intraday == a.interval \in IntradayIntervals
        req == IF intraday
               THEN Get(<<ApiV3, "historical-chart", a.interval, a.ticker>>, [apikey |-> api_key])
               ELSE Get(<<ApiV3, "historical-price-full", a.ticker>>, [apikey |-> api_key])
        resp == rs[1]
        error(e) == Returned(<<req>>, Err(<<"getting historical stock prices for", a.ticker, e>>))
    IN  IF Failed(resp) THEN error(resp.status)
        ELSE IF ~intraday /\ resp.body.t # "dict" THEN error("AttributeError")
        ELSE
        LET data == IF intraday THEN resp.body
                    ELSE IF "historical" \in resp.body.keys
                         THEN JList(resp.body.items) ELSE JList(<<>>)
            out == HistNormalize(data, a.period, t)
        IN  IF out.exc # "" THEN Raised(<<req>>, out.exc)
            ELSE Returned(<<req>>, JsonDumps(JList(out.rows)))

-----------------------------------------------------------------------------
(* The shape most tools share: one GET inside try/except, then             *)
(* json.dumps of whatever resp.json() gave.                                *)

\* A fetch that tries a failed request a second time.
FetchAndDump_Retry(req, resp, what) ==
    IF Failed(resp) THEN Returned(<<req, req>>, Err(what \o <<resp.status>>))
    ELSE Returned(<<req>>, JsonDumps(resp.body))

FetchAndDump(req, resp, what) ==
    IF Failed(resp) THEN Returned(<<req>>, Err(what \o <<resp.status>>))
    ELSE Returned(<<req>>, JsonDumps(resp.body))

\* dict.get(key): None when the key is absent.
MapGet(m, k) == IF k \in DOMAIN m THEN m[k] ELSE None

-----------------------------------------------------------------------------
(* get_stock_info                                                          *)

get_stock_info_PassThrough(api_key, a, t, rs) ==
    IF MissingKey(api_key) THEN Returned(<<>>, KeyNotSet)
    ELSE
    LET req == Get(<<ApiV3, "profile", a.ticker>>, [apikey |-> api_key])
    IN  IF Failed(rs[1])
        THEN Returned(<<req>>, Err(<<"getting stock information for", a.ticker, rs[1].status>>))
        ELSE Returned(<<req>>, JsonDumps(rs[1].body))

get_stock_info(api_key, a, t, rs) ==
    IF MissingKey(api_key) THEN Returned(<<>>, KeyNotSet)
    ELSE
    LET req == Get(<<ApiV3, "profile", a.ticker>>, [apikey |-> api_key])
        data == rs[1].body
    IN  IF Failed(rs[1])
        THEN Returned(<<req>>, Err(<<"getting stock information for", a.ticker, rs[1].status>>))
        ELSE Returned(<<req>>,
                      IF data.t = "list" /\ data.items # <<>>
                      THEN JsonDumps(data.items[1]) ELSE JsonDumps(data))

-----------------------------------------------------------------------------
(* get_news_sentiment                                                      *)

\* item.get(k, "") for the three fields of a block
NewsBlock(item) ==
    <<"Title: " \o (IF "title" \in item.keys THEN item.title ELSE ""),
      "Summary: " \o (IF "text" \in item.keys THEN item.text ELSE ""),
      "URL: " \o (IF "url" \in item.keys THEN item.url ELSE "")>>

\* A digest that joins the blocks with a single line break.
RECURSIVE JoinBlocks_NoBlank(_)
JoinBlocks_NoBlank(blocks) ==
    IF blocks = <<>> THEN <<>>
    ELSE Head(blocks) \o JoinBlocks_NoBlank(Tail(blocks))

RECURSIVE JoinBlocks(_)
\* "\n\n".join(news_list), as the lines of the joined string
JoinBlocks(blocks) ==
    IF blocks = <<>> THEN <<>>
    ELSE IF Len(blocks) = 1 THEN Head(blocks)
    ELSE Head(blocks) \o <<"">> \o JoinBlocks(Tail(blocks))

\* `for item in data`: the elements of a list, the keys of an object (str
\* objects, which have no .get); null is not iterable.
IterError(data) ==
    CASE data.t = "null" -> "TypeError"
      [] data.t = "dict" /\ data.keys # {} -> "AttributeError"
      [] data.t = "list" /\ ~AllDicts(data.items) -> "AttributeError"
      [] OTHER -> ""

Iterated(data) == IF data.t = "list" THEN data.items ELSE <<>>

get_news_sentiment(api_key, a, t, rs) ==
    IF MissingKey(api_key) THEN Returned(<<>>, KeyNotSet)
    ELSE
    LET req == Get(<<ApiV4, "general_news">>,
                   [tickers |-> a.ticker, page |-> 0, size |-> 50, apikey |-> api_key])
        data == rs[1].body
    IN  IF Failed(rs[1])
        THEN Returned(<<req>>, Err(<<"getting news for", a.ticker, rs[1].status>>))
        ELSE IF IterError(data) # "" THEN Raised(<<req>>, IterError(data))
        ELSE LET items == Iterated(data)
                 news_list == [i \in 1..Len(items) |-> NewsBlock(items[i])]
             IN  IF news_list = <<>>
                 THEN Returned(<<req>>, Text(<<"No news found for " \o a.ticker>>))
                 ELSE Returned(<<req>>, Text(JoinBlocks(news_list)))

-----------------------------------------------------------------------------
(* get_stock_actions                                                       *)

\* pd.DataFrame(resp.json().get("historical", [])) inside the try block: the
\* exception it raises, "" for none.
HistoricalError(resp) ==
    IF Failed(resp) THEN resp.status
    ELSE IF resp.body.t # "dict" THEN "AttributeError"
    ELSE ""

\* pd.DataFrame(...).to_dict("records")
HistoricalRecords(resp) ==
    IF "historical" \in resp.body.keys THEN resp.body.items ELSE <<>>

get_stock_actions_Partial(api_key, a, t, rs) ==
    IF MissingKey(api_key) THEN Returned(<<>>, KeyNotSet)
    ELSE
    LET div == Get(<<ApiV3, "historical-price-full", "stock_dividend", a.ticker>>,
                   [apikey |-> api_key])
        split == Get(<<ApiV3, "historical-price-full", "stock_split", a.ticker>>,
                     [apikey |-> api_key])
        error(e) == Err(<<"getting stock actions for", a.ticker, e>>)
    IN  IF HistoricalError(rs[1]) # ""
        THEN Returned(<<div>>, error(HistoricalError(rs[1])))
        ELSE Returned(<<div, split>>,
                      JsonDumps([t |-> "dict", keys |-> {"dividends", "splits"},
                                 items |-> <<>>,
                                 dividends |-> HistoricalRecords(rs[1]),
                                 splits |-> IF HistoricalError(rs[2]) # "" THEN <<>>
                                            ELSE HistoricalRecords(rs[2])]))

get_stock_actions(api_key, a, t, rs) ==
    IF MissingKey(api_key) THEN Returned(<<>>, KeyNotSet)
    ELSE
    LET div == Get(<<ApiV3, "historical-price-full", "stock_dividend", a.ticker>>,
                   [apikey |-> api_key])
        split == Get(<<ApiV3, "historical-price-full", "stock_split", a.ticker>>,
                     [apikey |-> api_key])
        error(e) == Err(<<"getting stock actions for", a.ticker, e>>)
    IN  IF HistoricalError(rs[1]) # ""
        THEN Returned(<<div>>, error(HistoricalError(rs[1])))
        ELSE IF HistoricalError(rs[2]) # ""
        THEN Returned(<<div, split>>, error(HistoricalError(rs[2])))
        ELSE Returned(<<div, split>>,
                      JsonDumps([t |-> "dict", keys |-> {"dividends", "splits"},
                                 items |-> <<>>,
                                 dividends |-> HistoricalRecords(rs[1]),
                                 splits |-> HistoricalRecords(rs[2])]))

-----------------------------------------------------------------------------
(* get_financial_statement                                                 *)

\* The members of the FinancialType enum.
FinancialType ==
    {"income_stmt_annual", "income_stmt_quarterly", "balance_sheet_annual",
     "balance_sheet_quarterly", "cashflow_annual", "cashflow_quarterly"}

financial_endpoint_map_Swapped ==
    ("income_stmt_annual" :> "income-statement")
    @@ ("income_stmt_quarterly" :> "income-statement")
    @@ ("balance_sheet_annual" :> "balance-sheet-statement")
    @@ ("balance_sheet_quarterly" :> "cash-flow-statement")
    @@ ("cashflow_annual" :> "cash-flow-statement")
    @@ ("cashflow_quarterly" :> "balance-sheet-statement")

financial_endpoint_map ==
    ("income_stmt_annual" :> "income-statement")
    @@ ("income_stmt_quarterly" :> "income-statement")
    @@ ("balance_sheet_annual" :> "balance-sheet-statement")
    @@ ("balance_sheet_quarterly" :> "balance-sheet-statement")
    @@ ("cashflow_annual" :> "cash-flow-statement")
    @@ ("cashflow_quarterly" :> "cash-flow-statement")

get_financial_statement(api_key, a, t, rs) ==
    IF MissingKey(api_key) THEN Returned(<<>>, KeyNotSet)
    ELSE
    LET period == IF a.subtype \in {"income_stmt_quarterly", "balance_sheet_quarterly",
                                    "cashflow_quarterly"}
                  THEN "quarter" ELSE "annual"
    IN  \* FinancialType(financial_type) raises ValueError for a non-member
        IF a.subtype \notin FinancialType THEN Raised(<<>>, "ValueError")
        ELSE
        LET endpoint == MapGet(financial_endpoint_map, a.subtype)
        IN  IF endpoint = None THEN Returned(<<>>, Err(<<"invalid financial type">>))
            ELSE FetchAndDump(Get(<<ApiV3, endpoint, a.ticker>>,
                                  [period |-> period, apikey |-> api_key]),
                              rs[1], <<"getting financial statement for", a.ticker>>)

-----------------------------------------------------------------------------
(* get_calendar_data                                                       *)

calendar_endpoint_map ==
    ("dividends" :> "dividends") @@ ("dividends_calendar" :> "dividends-calendar")
    @@ ("earnings" :> "earnings") @@ ("earnings_calendar" :> "earnings-calendar")
    @@ ("ipos_calendar" :> "ipos-calendar") @@ ("ipos_disclosure" :> "ipos-disclosure")
    @@ ("ipos_prospectus" :> "ipos-prospectus") @@ ("splits" :> "splits")
    @@ ("splits_calendar" :> "splits-calendar")

\* params.update({"page": page, "limit": limit})
WithPage(params, a, on) ==
    IF on THEN [page |-> a.page, limit |-> a.limit] @@ params ELSE params

\* params["symbol"] = symbol (or another name for the same argument)
WithSymbol(params, a, on) == IF on THEN [symbol |-> a.ticker] @@ params ELSE params

WithName(params, a, on) == IF on THEN [name |-> a.ticker] @@ params ELSE params

get_calendar_data(api_key, a, t, rs) ==
    IF MissingKey(api_key) THEN Returned(<<>>, KeyNotSet)
    ELSE
    LET endpoint == MapGet(calendar_endpoint_map, Lower(a.subtype))
        params == WithPage(WithSymbol([apikey |-> api_key], a, ~Empty(a.ticker)), a,
                           a.subtype \in {"ipos_calendar", "ipos_disclosure", "ipos_prospectus"})
    IN  IF endpoint = None THEN Returned(<<>>, Err(<<"invalid event type">>))
        ELSE IF a.subtype \in {"dividends", "earnings", "splits"} /\ Empty(a.ticker)
        THEN Returned(<<>>, Err(<<"symbol is required for this event type">>))
        ELSE FetchAndDump(Get(<<Stable, endpoint>>, params), rs[1],
                          <<"getting calendar data", a.subtype>>)

-----------------------------------------------------------------------------
(* get_shares_float_info                                                   *)

shares_float_endpoint_map == ("single" :> "shares-float") @@ ("all" :> "shares-float-all")

get_shares_float_info(api_key, a, t, rs) ==
    IF MissingKey(api_key) THEN Returned(<<>>, KeyNotSet)
    ELSE
    LET endpoint == MapGet(shares_float_endpoint_map, Lower(a.subtype))
        params == IF a.subtype = "single" THEN WithSymbol([apikey |-> api_key], a, TRUE)
                  ELSE WithPage([apikey |-> api_key], a, TRUE)
    IN  IF endpoint = None THEN Returned(<<>>, Err(<<"invalid info type">>))
        ELSE IF a.subtype = "single" /\ Empty(a.ticker)
        THEN Returned(<<>>, Err(<<"symbol is required for single type">>))
        ELSE FetchAndDump(Get(<<Stable, endpoint>>, params), rs[1],
                          <<"getting shares float info", a.subtype>>)

-----------------------------------------------------------------------------
(* get_ma_data                                                             *)

ma_endpoint_map ==
    ("latest" :> "mergers-acquisitions-latest") @@ ("search" :> "mergers-acquisitions-search")

get_ma_data(api_key, a, t, rs) ==
    IF MissingKey(api_key) THEN Returned(<<>>, KeyNotSet)
    ELSE
    LET endpoint == MapGet(ma_endpoint_map, Lower(a.subtype))
        params == WithName(WithPage([apikey |-> api_key], a, TRUE), a, a.subtype = "search")
    IN  IF endpoint = None THEN Returned(<<>>, Err(<<"invalid action type">>))
        ELSE IF a.subtype = "search" /\ Empty(a.ticker)
        THEN Returned(<<>>, Err(<<"name is required for search">>))
        ELSE FetchAndDump(Get(<<Stable, endpoint>>, params), rs[1],
                          <<"getting M&A data", a.subtype>>)

-----------------------------------------------------------------------------
(* get_executive_info                                                      *)

executive_endpoint_map ==
    ("executives" :> "key-executives")
    @@ ("compensation" :> "governance-executive-compensation")
    @@ ("benchmark" :> "executive-compensation-benchmark")

get_executive_info(api_key, a, t, rs) ==
    IF MissingKey(api_key) THEN Returned(<<>>, KeyNotSet)
    ELSE
    LET endpoint == MapGet(executive_endpoint_map, Lower(a.subtype))
        needs == a.subtype \in {"executives", "compensation"}
    IN  IF endpoint = None THEN Returned(<<>>, Err(<<"invalid info type">>))
        ELSE IF needs /\ Empty(a.ticker)
        THEN Returned(<<>>, Err(<<"symbol is required for this info type">>))
        ELSE FetchAndDump(Get(<<Stable, endpoint>>, WithSymbol([apikey |-> api_key], a, needs)),
                          rs[1], <<"getting executive info", a.subtype, "for", a.ticker>>)

-----------------------------------------------------------------------------
(* get_dcf_valuation                                                       *)

dcf_endpoint_map ==
    ("dcf" :> "discounted-cash-flow") @@ ("levered" :> "levered-discounted-cash-flow")

get_dcf_valuation(api_key, a, t, rs) ==
    IF MissingKey(api_key) THEN Returned(<<>>, KeyNotSet)
    ELSE
    LET endpoint == MapGet(dcf_endpoint_map, Lower(a.subtype))
    IN  IF endpoint = None THEN Returned(<<>>, Err(<<"invalid valuation type">>))
        ELSE FetchAndDump(Get(<<Stable, endpoint>>, [symbol |-> a.ticker, apikey |-> api_key]),
                          rs[1], <<"getting", a.subtype, "DCF for", a.ticker>>)

-----------------------------------------------------------------------------
(* get_economic_data                                                       *)

economic_endpoint_map ==
    ("treasury_rates" :> "treasury-rates") @@ ("economic_indicators" :> "economic-indicators")
    @@ ("economic_calendar" :> "economic-calendar")
    @@ ("market_risk_premium" :> "market-risk-premium")

get_economic_data(api_key, a, t, rs) ==
    IF MissingKey(api_key) THEN Returned(<<>>, KeyNotSet)
    ELSE
    LET endpoint == MapGet(economic_endpoint_map, Lower(a.subtype))
        named == WithName([apikey |-> api_key], a, a.subtype = "economic_indicators")
        params == IF ~Empty(a.from_date) /\ ~Empty(a.to_date)
                  THEN [from |-> a.from_date, to |-> a.to_date] @@ named ELSE named
    IN  IF endpoint = None THEN Returned(<<>>, Err(<<"invalid data type">>))
        ELSE IF a.subtype = "economic_indicators" /\ Empty(a.ticker)
        THEN Returned(<<>>, Err(<<"name is required for economic_indicators">>))
        ELSE FetchAndDump(Get(<<Stable, endpoint>>, params), rs[1],
                          <<"getting economic data", a.subtype>>)

-----------------------------------------------------------------------------
(* get_option_expiration_dates                                             *)

\* Position of an expiration string in lexicographic order.
StrRank(x) ==
    CASE x = "2024-01-19" -> 1
      [] x = "2024-02-16" -> 2
      [] x = "2024-03-15" -> 3
      [] OTHER -> 0

RECURSIVE Sorted(_)
\* sorted() on a list of strings
Sorted(items) ==
    IF items = <<>> THEN <<>>
    ELSE LET i == CHOOSE i \in 1..Len(items) :
                      \A j \in 1..Len(items) :
                          StrRank(items[i].v) < StrRank(items[j].v)
                          \/ (StrRank(items[i].v) = StrRank(items[j].v) /\ i <= j)
         IN <<items[i]>> \o Sorted(SubSeq(items, 1, i - 1) \o SubSeq(items, i + 1, Len(items)))

get_option_expiration_dates(api_key, a, t, rs) ==
    IF MissingKey(api_key) THEN Returned(<<>>, KeyNotSet)
    ELSE
    LET req == Get(<<ApiV3, "options", "available-expirations", a.ticker>>,
                   [apikey |-> api_key])
        data == rs[1].body
        expirations == IF data.t = "list" \/ "expirations" \in data.keys
                       THEN data.items ELSE <<>>
    IN  IF Failed(rs[1])
        THEN Returned(<<req>>, Err(<<"getting option expiration dates for", a.ticker, rs[1].status>>))
        \* data.get on a value that is neither a list nor an object
        ELSE IF data.t = "null" THEN Raised(<<req>>, "AttributeError")
        \* sorted() compares elements: objects and nulls have no order
        ELSE IF Len(expirations) >= 2 /\ \E i \in 1..Len(expirations) : expirations[i].t # "str"
        THEN Raised(<<req>>, "TypeError")
        ELSE Returned(<<req>>, JsonDumps(JList(Sorted(expirations))))

-----------------------------------------------------------------------------
(* get_option_chain                                                        *)

\* item.get("expirationDate") == expiration_date
\*     and item.get("optionType", "").lower() == option_type.lower()
OptionMatches_CaseSensitive(item, a) ==
    /\ "expirationDate" \in item.keys
    /\ item.expirationDate = a.expiration_date
    /\ (IF "optionType" \in item.keys THEN item.optionType ELSE "") = a.option_type

OptionMatches(item, a) ==
    /\ "expirationDate" \in item.keys
    /\ item.expirationDate = a.expiration_date
    /\ Lower(IF "optionType" \in item.keys THEN item.optionType ELSE "") = Lower(a.option_type)

get_option_chain(api_key, a, t, rs) ==
    IF MissingKey(api_key) THEN Returned(<<>>, KeyNotSet)
    ELSE
    LET req == Get(<<ApiV3, "options", "chain", a.ticker>>,
                   [expiration |-> a.expiration_date, apikey |-> api_key])
        data == rs[1].body
    IN  IF Failed(rs[1])
        THEN Returned(<<req>>, Err(<<"getting option chain for", a.ticker, rs[1].status>>))
        ELSE IF IterError(data) # "" THEN Raised(<<req>>, IterError(data))
        ELSE Returned(<<req>>,
                      JsonDumps(JList(SelectSeq(Iterated(data),
                                                LAMBDA item : OptionMatches(item, a)))))

-----------------------------------------------------------------------------
(* search_companies, get_top_gainers, get_top_losers, the grades tools     *)

search_companies(api_key, a, t, rs) ==
    IF MissingKey(api_key) THEN Returned(<<>>, KeyNotSet)
    ELSE
    LET base == [query |-> a.ticker, limit |-> a.limit, apikey |-> api_key]
        params == IF ~Empty(a.exchange) THEN [exchange |-> a.exchange] @@ base ELSE base
    IN  FetchAndDump(Get(<<ApiV3, "search">>, params), rs[1], <<"searching companies">>)

get_top_gainers(api_key, a, t, rs) ==
    IF MissingKey(api_key) THEN Returned(<<>>, KeyNotSet)
    ELSE FetchAndDump(Get(<<ApiV3, "stock_market", "gainers">>, [apikey |-> api_key]),
                      rs[1], <<"getting top gainers">>)

get_top_losers(api_key, a, t, rs) ==
    IF MissingKey(api_key) THEN Returned(<<>>, KeyNotSet)
    ELSE FetchAndDump(Get(<<ApiV3, "stock_market", "losers">>, [apikey |-> api_key]),
                      rs[1], <<"getting top losers">>)

get_stock_grades(api_key, a, t, rs) ==
    IF MissingKey(api_key) THEN Returned(<<>>, KeyNotSet)
    ELSE FetchAndDump(Get(<<Stable, "grades">>, [symbol |-> a.ticker, apikey |-> api_key]),
                      rs[1], <<"getting stock grades for", a.ticker>>)

get_stock_grades_historical(api_key, a, t, rs) ==
    IF MissingKey(api_key) THEN Returned(<<>>, KeyNotSet)
    ELSE FetchAndDump(Get(<<Stable, "grades-historical">>,
                          [symbol |-> a.ticker, limit |-> a.limit, apikey |-> api_key]),
                      rs[1], <<"getting historical grades for", a.ticker>>)

get_stock_grades_summary(api_key, a, t, rs) ==
    IF MissingKey(api_key) THEN Returned(<<>>, KeyNotSet)
    ELSE FetchAndDump(Get(<<Stable, "grades-consensus">>,
                          [symbol |-> a.ticker, apikey |-> api_key]),
                      rs[1], <<"getting grades summary for", a.ticker>>)

get_stock_grade_news(api_key, a, t, rs) ==
    IF MissingKey(api_key) THEN Returned(<<>>, KeyNotSet)
    ELSE FetchAndDump(Get(<<Stable, "grades-news">>,
                          [symbol |-> a.ticker, page |-> a.page, limit |-> a.limit,
                           apikey |-> api_key]),
                      rs[1], <<"getting grade news for", a.ticker>>)

get_stock_grade_latest_news(api_key, a, t, rs) ==
    IF MissingKey(api_key) THEN Returned(<<>>, KeyNotSet)
    ELSE FetchAndDump(Get(<<Stable, "grades-latest-news">>,
                          [page |-> a.page, limit |-> a.limit, apikey |-> api_key]),
                      rs[1], <<"getting latest grade news">>)

-----------------------------------------------------------------------------
(* lookup_identifier                                                       *)

\* identifier type -> <<endpoint, name of the query parameter>>
identifier_endpoint_map ==
    ("symbol" :> <<"search-symbol", "query">>) @@ ("name" :> <<"search-name", "query">>)
    @@ ("cik" :> <<"search-cik", "cik">>) @@ ("cusip" :> <<"search-cusip", "cusip">>)
    @@ ("isin" :> <<"search-isin", "isin">>)
    @@ ("exchange_variant" :> <<"search-exchange-variants", "symbol">>)

lookup_identifier(api_key, a, t, rs) ==
    IF MissingKey(api_key) THEN Returned(<<>>, KeyNotSet)
    ELSE
    IF Lower(a.subtype) \notin DOMAIN identifier_endpoint_map
    THEN Returned(<<>>, Err(<<"invalid identifier type">>))
    ELSE LET ep == identifier_endpoint_map[Lower(a.subtype)]
         IN  FetchAndDump(Get(<<Stable, ep[1]>>, (ep[2] :> a.ticker) @@ [apikey |-> api_key]),
                          rs[1], <<"lookup failed for", a.ticker>>)

-----------------------------------------------------------------------------
(* get_directory_list                                                      *)

directory_endpoint_map ==
    ("stock" :> "stock-list")
    @@ ("financial_statement_symbol" :> "financial-statement-symbol-list")
    @@ ("cik" :> "cik-list") @@ ("symbol_change" :> "symbol-change")
    @@ ("etf" :> "etf-list") @@ ("actively_trading" :> "actively-trading-list")
    @@ ("earnings_transcript" :> "earnings-transcript-list")
    @@ ("available_exchanges" :> "available-exchanges")
    @@ ("available_sectors" :> "available-sectors")
    @@ ("available_industries" :> "available-industries")
    @@ ("available_countries" :> "available-countries")

get_directory_list(api_key, a, t, rs) ==
    IF MissingKey(api_key) THEN Returned(<<>>, KeyNotSet)
    ELSE
    LET endpoint == MapGet(directory_endpoint_map, Lower(a.subtype))
    IN  IF endpoint = None THEN Returned(<<>>, Err(<<"invalid list type">>))
        ELSE FetchAndDump(Get(<<Stable, endpoint>>, [apikey |-> api_key]), rs[1],
                          <<"getting directory list for", a.subtype>>)

-----------------------------------------------------------------------------
(* get_analyst_estimates, get_ratings, get_price_target_info               *)

get_analyst_estimates(api_key, a, t, rs) ==
    IF MissingKey(api_key) THEN Returned(<<>>, KeyNotSet)
    ELSE FetchAndDump(Get(<<Stable, "analyst-estimates">>,
                          [symbol |-> a.ticker, period |-> a.period, page |-> a.page,
                           limit |-> a.limit, apikey |-> api_key]),
                      rs[1], <<"getting analyst estimates for", a.ticker>>)

ratings_endpoint_map ==
    ("snapshot" :> "ratings-snapshot") @@ ("historical" :> "ratings-historical")

get_ratings(api_key, a, t, rs) ==
    IF MissingKey(api_key) THEN Returned(<<>>, KeyNotSet)
    ELSE
    LET endpoint == MapGet(ratings_endpoint_map, Lower(a.subtype))
    IN  IF endpoint = None THEN Returned(<<>>, Err(<<"invalid rating type">>))
        ELSE FetchAndDump(Get(<<Stable, endpoint>>,
                              [symbol |-> a.ticker, limit |-> a.limit, apikey |-> api_key]),
                          rs[1], <<"getting", a.subtype, "ratings for", a.ticker>>)

price_target_endpoint_map ==
    ("summary" :> "price-target-summary") @@ ("consensus" :> "price-target-consensus")
    @@ ("news" :> "price-target-news") @@ ("latest_news" :> "price-target-latest-news")

get_price_target_info(api_key, a, t, rs) ==
    IF MissingKey(api_key) THEN Returned(<<>>, KeyNotSet)
    ELSE
    LET endpoint == MapGet(price_target_endpoint_map, Lower(a.subtype))
        needs == a.subtype \in {"summary", "consensus", "news"}
        params == WithPage(WithSymbol([apikey |-> api_key], a, needs), a,
                           a.subtype \in {"news", "latest_news"})
    IN  IF endpoint = None THEN Returned(<<>>, Err(<<"invalid info type">>))
        ELSE IF needs /\ Empty(a.ticker)
        THEN Returned(<<>>, Err(<<"symbol is required for this info type">>))
        ELSE FetchAndDump(Get(<<Stable, endpoint>>, params), rs[1],
                          <<"getting price target info", a.subtype, "for", a.ticker>>)

-----------------------------------------------------------------------------
(* Inputs: tool calls, credentials, clock readings, upstream responses.    *)

Keys == {None, "", "k3y"}

\* Keyword arguments of a call.  `ticker` also stands for the tools' symbol,
\* name and query arguments, `subtype` for financial_type, event_type,
\* info_type, action_type, valuation_type, data_type, identifier_type,
\* list_type and rating_type.
DefaultArgs ==
    [ticker |-> "AAPL", subtype |-> "", period |-> "1mo", interval |-> "1d",
     expiration_date |-> "", option_type |-> "", page |-> 0, limit |-> 10,
     from_date |-> "", to_date |-> "", exchange |-> ""]

Call(tool, args) == [tool |-> tool, args |-> args]

NoCall == Call("", DefaultArgs)

Tickers == {"", "AAPL"}

SubtypeCalls(tool, subtypes, tickers, limit) ==
    {Call(tool, [DefaultArgs EXCEPT !.subtype = s, !.ticker = k, !.limit = limit]) :
        s \in subtypes, k \in tickers}

TickerCalls(tool, limit) ==
    {Call(tool, [DefaultArgs EXCEPT !.ticker = k, !.limit = limit]) : k \in Tickers}

KnownPeriods == {"1d", "5d", "1mo", "3mo", "6mo", "1y", "2y", "5y", "10y", "ytd"}

Periods == KnownPeriods \cup {"max", "YTD", "1w"}

HistCalls(periods, intervals) ==
    {Call("get_historical_stock_prices",
          [DefaultArgs EXCEPT !.period = p, !.interval = i]) :
        p \in periods, i \in intervals}

Calls ==
    HistCalls({"1mo", "ytd", "max", "1w"}, {"1d", "1hour", "1h", "5m", "1wk"})
    \cup TickerCalls("get_stock_info", 10)
    \cup TickerCalls("get_news_sentiment", 10)
    \cup TickerCalls("get_stock_actions", 10)
    \cup SubtypeCalls("get_financial_statement",
                      FinancialType \cup {"income_stmt", "Cashflow_Annual", ""}, {"AAPL"}, 10)
    \cup SubtypeCalls("get_calendar_data",
                      DOMAIN calendar_endpoint_map
                      \cup {"Dividends", "EARNINGS", "Splits", "IPOS_Calendar", "ipos", ""},
                      Tickers, 100)
    \cup SubtypeCalls("get_shares_float_info", {"single", "all", "Single", "ALL", "one", ""},
                      Tickers, 1000)
    \cup SubtypeCalls("get_ma_data", {"latest", "search", "Search", "Latest", "find"},
                      Tickers, 100)
    \cup SubtypeCalls("get_executive_info",
                      {"executives", "compensation", "benchmark", "Executives", "Benchmark",
                       "board"}, Tickers, 10)
    \cup SubtypeCalls("get_dcf_valuation", {"dcf", "levered", "DCF", "simple"}, Tickers, 10)
    \cup {Call("get_economic_data",
               [DefaultArgs EXCEPT !.subtype = s, !.ticker = k,
                                   !.from_date = d[1], !.to_date = d[2]]) :
            s \in DOMAIN economic_endpoint_map
                  \cup {"Economic_Indicators", "Treasury_Rates", "gdp"},
            k \in {"", "GDP"},
            d \in {<<"", "">>, <<"2024-01-01", "">>, <<"2024-01-01", "2024-03-01">>}}
    \cup TickerCalls("get_option_expiration_dates", 10)
    \cup {Call("get_option_chain",
               [DefaultArgs EXCEPT !.expiration_date = e, !.option_type = o]) :
            e \in {"2024-01-19", "2024-02-16"}, o \in {"call", "CALL", "puts"}}
    \cup {Call("search_companies", [DefaultArgs EXCEPT !.exchange = x]) :
            x \in {"", "NASDAQ"}}
    \cup {Call("get_top_gainers", DefaultArgs), Call("get_top_losers", DefaultArgs)}
    \cup TickerCalls("get_stock_grades", 10)
    \cup TickerCalls("get_stock_grades_historical", 100)
    \cup TickerCalls("get_stock_grades_summary", 10)
    \cup TickerCalls("get_stock_grade_news", 1)
    \cup {Call("get_stock_grade_latest_news", DefaultArgs)}
    \cup SubtypeCalls("lookup_identifier",
                      DOMAIN identifier_endpoint_map \cup {"CIK", "ticker"}, {"AAPL"}, 10)
    \cup SubtypeCalls("get_directory_list",
                      DOMAIN directory_endpoint_map \cup {"ETF", "bonds"}, {"AAPL"}, 10)
    \cup {Call("get_analyst_estimates", [DefaultArgs EXCEPT !.period = p]) :
            p \in {"annual", "quarter"}}
    \cup SubtypeCalls("get_ratings", {"snapshot", "historical", "Snapshot", "latest", ""},
                      {"AAPL"}, 1)
    \cup SubtypeCalls("get_price_target_info",
                      DOMAIN price_target_endpoint_map
                      \cup {"Summary", "News", "Latest_News", "target"}, Tickers, 10)

\* 2024-03-05T10:00:00 and 2024-01-01T00:00:00
HistNows == {Days(8830) + 36000, Days(8766)}

\* Row dates.  Daily rows: 2024-03-05, 2024-03-04, 2024-02-04, 2024-01-01,
\* 2023-12-31 and 2010-01-04.  Intraday rows: 2024-03-05 00:00:00,
\* 2024-03-04 10:00:00, 2024-02-04 00:00:00, 2024-01-01 00:00:00,
\* 2024-01-01 09:30:00 and 2010-01-04 00:00:00.
HistDates(interval) ==
    IF interval \in IntradayIntervals
    THEN {Days(8830), Days(8829) + 36000, Days(8800), Days(8766), Days(8766) + 34200,
          Days(3656)}
    ELSE {Days(8830), Days(8829), Days(8800), Days(8766), Days(8765), Days(3656)}

SeqsUpTo(S, n) == UNION {[1..k -> S] : k \in 0..n}

\* The keys of row i of a payload of the given shape.
RowKeys(shape, i) ==
    CASE shape = "plain" -> PriceKeys
      [] shape = "extra" -> PriceKeys \cup {"adjClose", "changePercent", "vwap"}
      [] shape = "sparse" -> IF i = 1 THEN PriceKeys \ {"open"} ELSE PriceKeys \cup {"vwap"}
      [] shape = "undated" -> IF i = 1 THEN PriceKeys \ {"date"} ELSE PriceKeys
      [] OTHER -> {}

Shapes == {"plain", "extra", "sparse", "undated", "bare"}

PriceRows(dates, shape, intraday) ==
    [i \in 1..Len(dates) |->
        PriceRow(dates[i], "r" \o ToString(i), RowKeys(shape, i), intraday)]

\* What the daily endpoint (an object holding the rows under "historical") and
\* the intraday endpoint (a list of rows) answer.
PriceBody(rows, interval) ==
    IF interval \in IntradayIntervals THEN JList(rows)
    ELSE JDict({"symbol", "historical"}, rows)

HistResponses(interval) ==
    {<<Response("ok", PriceBody(PriceRows(dates, shape, interval \in IntradayIntervals),
                                interval))>> :
        dates \in SeqsUpTo(HistDates(interval), MaxRows), shape \in Shapes}

NewsKeySets == {{"title", "text", "url"}, {"title", "url", "site"}, {"text"}, {}}

NewsResponses ==
    {<<Response("ok", JList([i \in 1..Len(ks) |-> NewsItem(ks[i], ToString(i))]))>> :
        ks \in SeqsUpTo(NewsKeySets, MaxRows + 1)}

\* An element carrying every field some tool looks for, one carrying none.
FullItem(id, ts, exp, side) ==
    [BlankItem EXCEPT !.keys = PriceKeys \cup {"adjClose", "title", "text", "url",
                                               "expirationDate", "optionType"},
                      !.date = DateStr(ts, FALSE), !.v = id, !.title = "T" \o id,
                      !.text = "S" \o id, !.url = "U" \o id,
                      !.expirationDate = exp, !.optionType = side]

Item1 == FullItem("1", Days(8829), "2024-01-19", "CALL")

Item2 == FullItem("2", Days(8765), "2024-02-16", "put")

LackingItem == [BlankItem EXCEPT !.keys = {"symbol"}]

Bodies ==
    {JList(<<>>), JList(<<Item1>>), JList(<<Item1, Item2>>), JList(<<LackingItem>>),
     JList(<<ItemNull>>), JList(<<ItemStr("2024-02-16"), ItemStr("2024-01-19")>>),
     JDict({}, <<>>), JDict({"Error Message"}, <<>>),
     JDict({"symbol", "historical"}, <<Item1, Item2>>),
     JDict({"symbol", "historical"}, <<LackingItem>>),
     JDict({"expirations"}, <<ItemStr("2024-02-16"), ItemStr("2024-01-19")>>),
     JNull}

Failures == {"ConnectionError", "Timeout", "HTTPError", "JSONDecodeError"}

Responses ==
    {Response(e, JNull) : e \in Failures} \cup {Response("ok", b) : b \in Bodies}

OneResponse == {<<r>> : r \in Responses}

TwoResponses == {<<r1, r2>> : r1 \in Responses, r2 \in Responses}

-----------------------------------------------------------------------------
(* The server.                                                             *)

Init ==
    /\ environ \in Keys
    /\ pc = "idle"
    /\ call = NoCall
    /\ now = 0
    /\ responses = <<>>
    /\ requests = <<>>
    /\ outcome = "none"
    /\ result = NoResult
    /\ history = {}

\* The environment the process runs in sets, changes or unsets FMP_API_KEY
\* between invocations.
SetEnviron ==
    /\ pc = "idle"
    /\ \E k \in Keys \ {environ} : environ' = k
    /\ UNCHANGED <<pc, call, now, responses, requests, outcome, result, history>>

\* The runtime receives a tool call and invokes the registered handler.
Dispatch ==
    /\ pc = "idle"
    /\ \E c \in Calls : call' = c
    /\ pc' = "called"
    /\ UNCHANGED <<environ, now, responses, requests, outcome, result, history>>

\* The tool registry: the handler registered under each tool name.
Handler(tool, api_key, a, t, rs) ==
    CASE tool = "get_historical_stock_prices" -> get_historical_stock_prices(api_key, a, t, rs)
      [] tool = "get_stock_info" -> get_stock_info(api_key, a, t, rs)
      [] tool = "get_news_sentiment" -> get_news_sentiment(api_key, a, t, rs)
      [] tool = "get_stock_actions" -> get_stock_actions(api_key, a, t, rs)
      [] tool = "get_financial_statement" -> get_financial_statement(api_key, a, t, rs)
      [] tool = "get_calendar_data" -> get_calendar_data(api_key, a, t, rs)
      [] tool = "get_shares_float_info" -> get_shares_float_info(api_key, a, t, rs)
      [] tool = "get_ma_data" -> get_ma_data(api_key, a, t, rs)
      [] tool = "get_executive_info" -> get_executive_info(api_key, a, t, rs)
      [] tool = "get_dcf_valuation" -> get_dcf_valuation(api_key, a, t, rs)
      [] tool = "get_economic_data" -> get_economic_data(api_key, a, t, rs)
      [] tool = "get_option_expiration_dates" -> get_option_expiration_dates(api_key, a, t, rs)
      [] tool = "get_option_chain" -> get_option_chain(api_key, a, t, rs)
      [] tool = "search_companies" -> search_companies(api_key, a, t, rs)
      [] tool = "get_top_gainers" -> get_top_gainers(api_key, a, t, rs)
      [] tool = "get_top_losers" -> get_top_losers(api_key, a, t, rs)
      [] tool = "get_stock_grades" -> get_stock_grades(api_key, a, t, rs)
      [] tool = "get_stock_grades_historical" -> get_stock_grades_historical(api_key, a, t, rs)
      [] tool = "get_stock_grades_summary" -> get_stock_grades_summary(api_key, a, t, rs)
      [] tool = "get_stock_grade_news" -> get_stock_grade_news(api_key, a, t, rs)
      [] tool = "get_stock_grade_latest_news" -> get_stock_grade_latest_news(api_key, a, t, rs)
      [] tool = "lookup_identifier" -> lookup_identifier(api_key, a, t, rs)
      [] tool = "get_directory_list" -> get_directory_list(api_key, a, t, rs)
      [] tool = "get_analyst_estimates" -> get_analyst_estimates(api_key, a, t, rs)
      [] tool = "get_ratings" -> get_ratings(api_key, a, t, rs)
      [] tool = "get_price_target_info" -> get_price_target_info(api_key, a, t, rs)

\* The responses among rs that answer the n requests a handler issued.
Consumed(rs, n) == SubSeq(rs, 1, IF n < Len(rs) THEN n ELSE Len(rs))

\* One run of the handler of `tool`: the clock reads t, upstream answers the
\* handler's requests with rs in order.
Serve_FailsAfterFailure(tool, Nows, Resps) ==
    /\ pc = "called"
    /\ call.tool = tool
    /\ \E t \in Nows, rs \in Resps :
          LET out == IF "failed" \in history
                     THEN Returned(<<>>, Err(<<"server unavailable">>))
                     ELSE Handler(tool, environ, call.args, t, rs)
          IN  /\ now' = t
              /\ requests' = out.requests
              /\ responses' = Consumed(rs, Len(out.requests))
              /\ outcome' = out.outcome
              /\ result' = out.result
    /\ pc' = "done"
    /\ UNCHANGED <<environ, call, history>>

Serve(tool, Nows, Resps) ==
    /\ pc = "called"
    /\ call.tool = tool
    /\ \E t \in Nows, rs \in Resps :
          LET out == Handler(tool, environ, call.args, t, rs)
          IN  /\ now' = t
              /\ requests' = out.requests
              /\ responses' = Consumed(rs, Len(out.requests))
              /\ outcome' = out.outcome
              /\ result' = out.result
    /\ pc' = "done"
    /\ UNCHANGED <<environ, call, history>>

\* How the invocation that is done ended.
Ended ==
    IF result = KeyNotSet THEN "nokey"
    ELSE IF outcome = "raise" \/ (result.text # <<>> /\ result.text[1] = "Error:")
    THEN "failed"
    ELSE "ok"

\* The runtime hands the result to the caller; nothing of the invocation is kept.
Return ==
    /\ pc = "done"
    /\ pc' = "idle"
    /\ call' = NoCall
    /\ now' = 0
    /\ responses' = <<>>
    /\ requests' = <<>>
    /\ outcome' = "none"
    /\ result' = NoResult
    /\ history' = history \cup {Ended}
    /\ UNCHANGED environ

Invoke_get_historical_stock_prices ==
    Serve("get_historical_stock_prices", {Days(8830) + 36000}, OneResponse)

Invoke_get_stock_info == Serve("get_stock_info", {now}, OneResponse)

Invoke_get_news_sentiment ==
    Serve("get_news_sentiment", {now}, OneResponse)

Invoke_get_stock_actions == Serve("get_stock_actions", {now}, TwoResponses)

Invoke_get_financial_statement ==
    Serve("get_financial_statement", {now}, OneResponse)

Invoke_get_calendar_data == Serve("get_calendar_data", {now}, OneResponse)

Invoke_get_shares_float_info ==
    Serve("get_shares_float_info", {now}, OneResponse)

Invoke_get_ma_data == Serve("get_ma_data", {now}, OneResponse)

Invoke_get_executive_info ==
    Serve("get_executive_info", {now}, OneResponse)

Invoke_get_dcf_valuation == Serve("get_dcf_valuation", {now}, OneResponse)

Invoke_get_economic_data == Serve("get_economic_data", {now}, OneResponse)

Invoke_get_option_expiration_dates ==
    Serve("get_option_expiration_dates", {now}, OneResponse)

Invoke_get_option_chain == Serve("get_option_chain", {now}, OneResponse)

Invoke_search_companies == Serve("search_companies", {now}, OneResponse)

Invoke_get_top_gainers == Serve("get_top_gainers", {now}, OneResponse)

Invoke_get_top_losers == Serve("get_top_losers", {now}, OneResponse)

Invoke_get_stock_grades == Serve("get_stock_grades", {now}, OneResponse)

Invoke_get_stock_grades_historical ==
    Serve("get_stock_grades_historical", {now}, OneResponse)

Invoke_get_stock_grades_summary ==
    Serve("get_stock_grades_summary", {now}, OneResponse)

Invoke_get_stock_grade_news ==
    Serve("get_stock_grade_news", {now}, OneResponse)

Invoke_get_stock_grade_latest_news ==
    Serve("get_stock_grade_latest_news", {now}, OneResponse)

Invoke_lookup_identifier == Serve("lookup_identifier", {now}, OneResponse)

Invoke_get_directory_list ==
    Serve("get_directory_list", {now}, OneResponse)

Invoke_get_analyst_estimates ==
    Serve("get_analyst_estimates", {now}, OneResponse)

Invoke_get_ratings == Serve("get_ratings", {now}, OneResponse)

Invoke_get_price_target_info ==
    Serve("get_price_target_info", {now}, OneResponse)

Next ==
    \/ SetEnviron
    \/ Dispatch
    \/ Return
    \/ Invoke_get_historical_stock_prices
    \/ Invoke_get_stock_info
    \/ Invoke_get_news_sentiment
    \/ Invoke_get_stock_actions
    \/ Invoke_get_financial_statement
    \/ Invoke_get_calendar_data
    \/ Invoke_get_shares_float_info
    \/ Invoke_get_ma_data
    \/ Invoke_get_executive_info
    \/ Invoke_get_dcf_valuation
    \/ Invoke_get_economic_data
    \/ Invoke_get_option_expiration_dates
    \/ Invoke_get_option_chain
    \/ Invoke_search_companies
    \/ Invoke_get_top_gainers
    \/ Invoke_get_top_losers
    \/ Invoke_get_stock_grades
    \/ Invoke_get_stock_grades_historical
    \/ Invoke_get_stock_grades_summary
    \/ Invoke_get_stock_grade_news
    \/ Invoke_get_stock_grade_latest_news
    \/ Invoke_lookup_identifier
    \/ Invoke_get_directory_list
    \/ Invoke_get_analyst_estimates
    \/ Invoke_get_ratings
    \/ Invoke_get_price_target_info

Spec == Init /\ [][Next]_vars

-----------------------------------------------------------------------------
(* get_historical_stock_prices on its own: every period, the daily and an  *)
(* intraday interval, payloads of every shape and date order.              *)

InitHist ==
    /\ environ = "k3y"
    /\ pc = "called"
    /\ call \in HistCalls(Periods, {"1d", "1hour"})
    /\ now = 0
    /\ responses = <<>>
    /\ requests = <<>>
    /\ outcome = "none"
    /\ result = NoResult
    /\ history = {}

HistoricalPrices ==
    Serve("get_historical_stock_prices", HistNows, HistResponses(call.args.interval))

SpecHist == InitHist /\ [][HistoricalPrices]_vars

-----------------------------------------------------------------------------
(* get_news_sentiment on its own: lists of up to MaxRows + 1 items with    *)
(* all, some or none of the three fields.                                  *)

InitNews ==
    /\ environ = "k3y"
    /\ pc = "called"
    /\ call \in TickerCalls("get_news_sentiment", 10)
    /\ now = 0
    /\ responses = <<>>
    /\ requests = <<>>
    /\ outcome = "none"
    /\ result = NoResult
    /\ history = {}

NewsDigest ==
    Serve("get_news_sentiment", {now}, NewsResponses \cup OneResponse)

SpecNews == InitNews /\ [][NewsDigest]_vars

-----------------------------------------------------------------------------
(* get_option_chain on its own: lists of up to MaxRows + 1 items of mixed  *)
(* expirations and sides, some lacking one of the two fields.              *)

OptionCalls ==
    {Call("get_option_chain",
          [DefaultArgs EXCEPT !.expiration_date = e, !.option_type = o]) :
        e \in {"2024-01-19", "2024-02-16", "2024-03-15"},
        o \in {"call", "CALL", "put", "puts"}}

OptionKinds ==
    {OptionItem({"expirationDate", "optionType", "strike"}, "2024-01-19", "call"),
     OptionItem({"expirationDate", "optionType", "strike"}, "2024-01-19", "PUT"),
     OptionItem({"expirationDate", "optionType", "strike"}, "2024-02-16", "Call"),
     OptionItem({"expirationDate", "optionType", "strike"}, "2024-02-16", "put"),
     OptionItem({"expirationDate", "strike"}, "2024-01-19", ""),
     OptionItem({"optionType", "strike"}, "", "call")}

OptionResponses ==
    {<<Response("ok", JList([i \in 1..Len(ks) |-> [ks[i] EXCEPT !.v = "o" \o ToString(i)]]))>> :
        ks \in SeqsUpTo(OptionKinds, MaxRows + 1)}

InitOptions ==
    /\ environ = "k3y"
    /\ pc = "called"
    /\ call \in OptionCalls
    /\ now = 0
    /\ responses = <<>>
    /\ requests = <<>>
    /\ outcome = "none"
    /\ result = NoResult
    /\ history = {}

OptionChain ==
    Serve("get_option_chain", {now}, OptionResponses \cup OneResponse)

SpecOptions == InitOptions /\ [][OptionChain]_vars

-----------------------------------------------------------------------------
(* Properties.                                                             *)

Done == pc = "done"

KeyPresent == environ = "k3y"

\* The returned string begins with "Error:".
IsErrorString(r) == r.text # <<>> /\ r.text[1] = "Error:"

ReturnedError == outcome = "return" /\ IsErrorString(result)

ReturnedSuccess == outcome = "return" /\ ~IsErrorString(result)

Tool(name) == call.tool = name

\* The sub-types each gated tool documents, and those of them that need a
\* symbol (or name).
Documented(tool) ==
    CASE tool = "get_financial_statement" -> FinancialType
      [] tool = "get_calendar_data" ->
            {"dividends", "dividends_calendar", "earnings", "earnings_calendar",
             "ipos_calendar", "ipos_disclosure", "ipos_prospectus", "splits",
             "splits_calendar"}
      [] tool = "get_shares_float_info" -> {"single", "all"}
      [] tool = "get_ma_data" -> {"latest", "search"}
      [] tool = "get_executive_info" -> {"executives", "compensation", "benchmark"}
      [] tool = "get_dcf_valuation" -> {"dcf", "levered"}
      [] tool = "get_economic_data" ->
            {"treasury_rates", "economic_indicators", "economic_calendar",
             "market_risk_premium"}
      [] tool = "lookup_identifier" ->
            {"symbol", "name", "cik", "cusip", "isin", "exchange_variant"}
      [] tool = "get_directory_list" -> DOMAIN directory_endpoint_map
      [] tool = "get_ratings" -> {"snapshot", "historical"}
      [] tool = "get_price_target_info" -> {"summary", "consensus", "news", "latest_news"}
      [] OTHER -> {}

NeedsSymbol(tool) ==
    CASE tool = "get_calendar_data" -> {"dividends", "earnings", "splits"}
      [] tool = "get_shares_float_info" -> {"single"}
      [] tool = "get_ma_data" -> {"search"}
      [] tool = "get_executive_info" -> {"executives", "compensation"}
      [] tool = "get_economic_data" -> {"economic_indicators"}
      [] tool = "get_price_target_info" -> {"summary", "consensus", "news"}
      [] OTHER -> {}

Gated == {"get_financial_statement", "get_calendar_data", "get_shares_float_info",
          "get_ma_data", "get_executive_info", "get_dcf_valuation", "get_economic_data",
          "lookup_identifier", "get_directory_list", "get_ratings",
          "get_price_target_info"}

\* The call names a documented sub-type, spelled as documented, and carries
\* the symbol that sub-type needs.
WellFormedCall ==
    call.tool \in Gated =>
        /\ call.args.subtype \in Documented(call.tool)
        /\ call.args.subtype \in NeedsSymbol(call.tool) => call.args.ticker # ""

\* C1: whenever FMP_API_KEY is unset or empty, every tool returns a string
\* beginning with "Error:" and issues no request.
C1_MissingCredential ==
    Done /\ (environ = None \/ environ = "") => ReturnedError /\ requests = <<>>

C1_Witness ==
    /\ Done /\ environ = "" /\ Tool("get_price_target_info")
    /\ call.args.subtype = "news" /\ call.args.ticker = "AAPL"
    /\ ReturnedError /\ requests = <<>>

\* C2: with the credential present, get_financial_statement, get_calendar_data
\* and get_ratings answer every sub-type outside their supported set with an
\* "Error:" string and no request.
C2_UnsupportedSubtype ==
    /\ Done /\ KeyPresent
    /\ call.tool \in {"get_financial_statement", "get_calendar_data", "get_ratings"}
    /\ Lower(call.args.subtype) \notin Documented(call.tool)
    => ReturnedError /\ requests = <<>>

\* C3: every invocation ends by returning a string, a success string or one
\* beginning with "Error:"; no exception reaches the caller.
C3_NeverRaises == Done => outcome = "return"

\* C4: when the sub-type resolves to an endpoint that needs a symbol and the
\* symbol is empty, the tool returns an "Error:" string and issues no request.
C4_SymbolRequired ==
    /\ Done /\ KeyPresent
    /\ call.tool \in {"get_calendar_data", "get_shares_float_info", "get_executive_info",
                       "get_price_target_info"}
    /\ Lower(call.args.subtype) \in NeedsSymbol(call.tool)
    /\ call.args.ticker = ""
    => ReturnedError /\ requests = <<>>

\* C5 as stated: an invocation that passes the credential check and parameter
\* validation issues exactly one GET.
C5_ExactlyOneRequest ==
    Done /\ KeyPresent /\ WellFormedCall => Len(requests) = 1

\* The dividends call went through: a 2xx answer whose body is an object.
DividendsFetched ==
    responses # <<>> /\ responses[1].status = "ok" /\ responses[1].body.t = "dict"

\* C5 as amended: such an invocation issues exactly one GET, except
\* get_stock_actions, which issues the dividends GET and, if and only if that
\* call succeeded, the splits GET, two in all.
C5_OneRequestExceptStockActions ==
    Done /\ KeyPresent /\ WellFormedCall =>
        /\ \A i \in 1..Len(requests) : requests[i].method = "GET"
        /\ IF Tool("get_stock_actions")
           THEN Len(requests) = IF DividendsFetched THEN 2 ELSE 1
           ELSE Len(requests) = 1

C5_Witness ==
    /\ Done /\ KeyPresent /\ Tool("get_stock_actions") /\ ReturnedSuccess
    /\ Len(requests) = 2
    /\ requests[1].url[3] = "stock_dividend" /\ requests[2].url[3] = "stock_split"

-----------------------------------------------------------------------------
(* Properties of get_historical_stock_prices (SpecHist).                   *)

\* The rows upstream sent and the rows of the returned JSON array.
InRows == IF responses = <<>> THEN <<>> ELSE responses[1].body.items

OutRows == result.json.items

HistReturned == Done /\ Tool("get_historical_stock_prices") /\ ReturnedSuccess

\* Every row upstream sent is dated and carries the five price fields.
InputComplete == \A i \in 1..Len(InRows) : PriceKeys \subseteq InRows[i].keys

SameRow(out, in) == out.v = in.v /\ out.date.ts = in.date.ts

\* out is in[k+1..]
IsSuffix(out, in) ==
    /\ Len(out) <= Len(in)
    /\ \A i \in 1..Len(out) : SameRow(out[i], in[Len(in) - Len(out) + i])

\* out is in with some rows left out, the others in the order of in
IsSubsequence(out, in) ==
    \E pos \in [1..Len(out) -> 1..Len(in)] :
        /\ \A i \in 1..Len(out) : SameRow(out[i], in[pos[i]])
        /\ \A i, j \in 1..Len(out) : i < j => pos[i] < pos[j]

Ascending(rows) ==
    \A i, j \in 1..Len(rows) : i < j => rows[i].date.ts <= rows[j].date.ts

SupportedPeriod == call.args.period \in KnownPeriods \cup {"max"}

\* C6 as stated: for every supported period the returned rows are a contiguous
\* suffix of the rows upstream sent.
C6_ContiguousSuffix ==
    HistReturned /\ SupportedPeriod /\ InputComplete => IsSuffix(OutRows, InRows)

\* C6 as amended: the returned rows are rows upstream sent, in upstream's
\* order, and they are a contiguous suffix whenever upstream sent the rows in
\* ascending date order.
C6_OrderKeptSuffixWhenAscending ==
    HistReturned /\ SupportedPeriod /\ InputComplete =>
        /\ IsSubsequence(OutRows, InRows)
        /\ Ascending(InRows) => IsSuffix(OutRows, InRows)

C6_Witness ==
    /\ HistReturned /\ call.args.period = "1mo" /\ InputComplete
    /\ Len(InRows) = 2 /\ InRows[1].date.ts < InRows[2].date.ts
    /\ Len(OutRows) = 1 /\ SameRow(OutRows[1], InRows[2])

\* The window each period stands for: its first instant, counted back from
\* the clock reading t.
ClaimedDays(period) ==
    CASE period = "1d" -> 1 [] period = "5d" -> 5 [] period = "1mo" -> 30
      [] period = "3mo" -> 90 [] period = "6mo" -> 180 [] period = "1y" -> 365
      [] period = "2y" -> 730 [] period = "5y" -> 1825 [] period = "10y" -> 3650

InClaimedWindow(period, ts, t) ==
    CASE period = "max" -> TRUE
      [] period = "ytd" -> ts >= ReplaceMonthDay_1_1_Midnight(t)
      [] OTHER -> ts >= t - ClaimedDays(period) * 86400

Kept(i) == \E j \in 1..Len(OutRows) : SameRow(OutRows[j], InRows[i])

\* C7: a row is kept if and only if it lies in the window of the period: not
\* earlier than now minus the period's days, on or after January 1 of the
\* current year for "ytd" (January 1 included), every row for "max".
C7_KeptIffInWindow ==
    HistReturned /\ SupportedPeriod /\ InputComplete =>
        \A i \in 1..Len(InRows) :
            Kept(i) <=> InClaimedWindow(call.args.period, InRows[i].date.ts, now)

\* C8: a period that is not a known key gives what "max" gives for the same
\* payload: every row, and no error.
C8_UnknownPeriodIsMax ==
    Done /\ Tool("get_historical_stock_prices") /\ call.args.period \notin KnownPeriods =>
        LET max == get_historical_stock_prices(
                       environ, [call.args EXCEPT !.period = "max"], now, responses)
        IN  /\ outcome = max.outcome
            /\ result = max.result
            /\ ~IsErrorString(result)
            /\ outcome = "return" =>
                  /\ Len(OutRows) = Len(InRows)
                  /\ InputComplete => \A i \in 1..Len(InRows) : SameRow(OutRows[i], InRows[i])

C8_Witness ==
    /\ HistReturned /\ call.args.period = "1w" /\ InputComplete
    /\ Len(InRows) = 2 /\ InRows[1].date.ts = Days(3656)
    /\ Len(OutRows) = 2

TitledColumns == {"Date", "Open", "High", "Low", "Close", "Volume"}

\* C9: for every payload of the daily and of the intraday endpoint whose rows
\* carry the six fields, with whatever extra columns, and for the empty
\* payload, every returned row has exactly the columns Date, Open, High, Low,
\* Close, Volume and an ISO-8601 Date.
C9_CanonicalColumns ==
    HistReturned /\ InputComplete =>
        \A j \in 1..Len(OutRows) :
            /\ OutRows[j].keys = TitledColumns
            /\ OutRows[j].date.fmt = "YYYY-MM-DDTHH:MM:SS.sss"

C9_Witness ==
    /\ HistReturned /\ call.args.interval = "1hour" /\ InputComplete
    /\ Len(InRows) = 2 /\ "vwap" \in InRows[1].keys
    /\ InRows[2].date.fmt = "YYYY-MM-DD HH:MM:SS"
    /\ Len(OutRows) = 2 /\ OutRows[2].keys = TitledColumns

-----------------------------------------------------------------------------
(* Properties of get_news_sentiment (SpecNews).                            *)

NewsReturned == Done /\ Tool("get_news_sentiment") /\ outcome = "return"

NewsItems == responses[1].body.items

\* C10: zero upstream items give "No news found for <ticker>"; N > 0 items
\* give N blocks of three lines, Title / Summary / URL, in upstream order,
\* with one blank line between consecutive blocks.
C10_NewsDigest ==
    NewsReturned /\ responses[1].status = "ok" =>
        LET n == Len(NewsItems)
            lines == result.text
        IN  IF n = 0
            THEN lines = <<"No news found for " \o call.args.ticker>>
            ELSE /\ Len(lines) = 4 * n - 1
                 /\ \A i \in 1..n :
                        /\ lines[4 * i - 3] = "Title: " \o NewsItems[i].title
                        /\ lines[4 * i - 2] = "Summary: " \o NewsItems[i].text
                        /\ lines[4 * i - 1] = "URL: " \o NewsItems[i].url
                        /\ i < n => lines[4 * i] = ""

C10_Witness ==
    /\ NewsReturned /\ Len(NewsItems) = 2 /\ Len(result.text) = 7
    /\ result.text[4] = "" /\ result.text[5] = "Title: T2"

-----------------------------------------------------------------------------
(* get_option_chain: the filter.                                           *)

\* Letter-case variants of one word.
CaseClasses ==
    {{"call", "CALL", "Call"}, {"put", "PUT", "Put"}, {"puts", "PUTS", "Puts"}}

EqualIgnoringCase(x, y) == x = y \/ \E c \in CaseClasses : x \in c /\ y \in c

OptionsReturned ==
    /\ Done /\ Tool("get_option_chain") /\ outcome = "return"
    /\ responses # <<>> /\ responses[1].status = "ok"

OptionsIn == responses[1].body.items

OptionsOut == result.json.items

\* The positions of the upstream items the caller asked for.
Requested ==
    {i \in 1..Len(OptionsIn) :
        /\ "expirationDate" \in OptionsIn[i].keys
        /\ OptionsIn[i].expirationDate = call.args.expiration_date
        /\ "optionType" \in OptionsIn[i].keys
        /\ EqualIgnoringCase(OptionsIn[i].optionType, call.args.option_type)}

\* The k-th requested position, counting from the start of the upstream list.
NthRequested(k) == CHOOSE i \in Requested : Cardinality({j \in Requested : j <= i}) = k

\* C11: for an upstream list of option items, get_option_chain returns a JSON
\* array holding exactly the items whose expirationDate is the requested
\* expiration_date and whose optionType is the requested option_type up to
\* letter case, in upstream order; the array is empty when no item matches.
C11_OptionFilter ==
    OptionsReturned /\ AllDicts(OptionsIn) /\ responses[1].body.t = "list"
    => /\ result.text = <<"[">>
       /\ result.json.t = "list"
       /\ Len(OptionsOut) = Cardinality(Requested)
       /\ \A k \in 1..Len(OptionsOut) : OptionsOut[k] = OptionsIn[NthRequested(k)]

\* Three items are returned by upstream, the first and the third are asked for
\* (the third in another letter case), and just these two are returned.
C11_Witness ==
    /\ OptionsReturned
    /\ Len(OptionsIn) = 3
    /\ Requested = {1, 3}
    /\ OptionsIn[3].optionType # call.args.option_type
    /\ Len(OptionsOut) = 2

-----------------------------------------------------------------------------
(* get_stock_info: the first element of a list.                            *)

InfoReturned ==
    /\ Done /\ Tool("get_stock_info") /\ outcome = "return"
    /\ responses # <<>> /\ responses[1].status = "ok"

Payload == responses[1].body

\* The returned string is the JSON text of v.
Serializes(v) == result.json = v /\ result.text = <<JsonFirst(v)>>

\* C12: in get_stock_info, whenever the upstream payload is a list, of any
\* length including zero, the result is the JSON serialization of the list's
\* first element; whenever it is not a list the result is the serialization of
\* the payload itself.
C12_FirstElementOfAnyList ==
    InfoReturned
    => IF Payload.t = "list"
       THEN Payload.items # <<>> /\ Serializes(Payload.items[1])
       ELSE Serializes(Payload)

\* C12 (amended): whenever the upstream payload is a non-empty list the result
\* is the JSON serialization of its first element; whenever it is an empty
\* list or not a list the result is the serialization of the payload itself
\* ("[]" for the empty list).
C12_FirstElementOfNonEmptyList ==
    InfoReturned
    => IF Payload.t = "list" /\ Payload.items # <<>>
       THEN Serializes(Payload.items[1])
       ELSE Serializes(Payload)

\* A list of two objects came back and the first of them was returned.
C12_Witness ==
    /\ InfoReturned
    /\ Payload.t = "list"
    /\ Len(Payload.items) = 2
    /\ result.json = Payload.items[1]
    /\ result.text = <<"{">>

-----------------------------------------------------------------------------
(* get_stock_actions: all or nothing.                                      *)

ActionsDone == Done /\ Tool("get_stock_actions") /\ KeyPresent

\* The i-th upstream call was made and succeeded (status 2xx, a JSON object).
CallSucceeded(i) ==
    /\ Len(responses) >= i
    /\ responses[i].status = "ok"
    /\ responses[i].body.t = "dict"

\* The i-th upstream call was made and failed.
CallFailed(i) == Len(responses) >= i /\ ~CallSucceeded(i)

\* The result is the JSON object holding the dividends and the splits.
BothReturned ==
    /\ ReturnedSuccess
    /\ result.text = <<"{">>
    /\ result.json.keys = {"dividends", "splits"}

\* C13: get_stock_actions is all-or-nothing.  The JSON object with keys
\* "dividends" and "splits" is returned only when both upstream calls
\* succeeded; if either call fails the invocation returns one "Error:" string
\* carrying no partial result; when the dividends call (the first) fails the
\* splits call is never issued; and no request is issued twice.
C13_AllOrNothing ==
    ActionsDone
    => /\ outcome = "return"
       /\ BothReturned \/ ReturnedError
       /\ BothReturned => CallSucceeded(1) /\ CallSucceeded(2)
       /\ CallFailed(1) \/ CallFailed(2) => ReturnedError /\ result.json = JNull
       /\ CallFailed(1) => Len(requests) = 1
       /\ Len(requests) \in {1, 2}
       /\ requests[1].url[3] = "stock_dividend"
       /\ Len(requests) = 2 => requests[2].url[3] = "stock_split"

\* The dividends call succeeded, the splits call failed, and the caller got
\* an error string.
C13_Witness ==
    /\ ActionsDone
    /\ CallSucceeded(1)
    /\ CallFailed(2)
    /\ ReturnedError
    /\ Len(requests) = 2

-----------------------------------------------------------------------------
(* get_financial_statement: one request template per financial type.       *)

StatementDone == Done /\ Tool("get_financial_statement") /\ KeyPresent

AnnualTypes == {"income_stmt_annual", "balance_sheet_annual", "cashflow_annual"}

QuarterlyTypes == {"income_stmt_quarterly", "balance_sheet_quarterly", "cashflow_quarterly"}

\* The statement a financial type names.
Statement(type) ==
    CASE type \in {"income_stmt_annual", "income_stmt_quarterly"} -> "income-statement"
      [] type \in {"balance_sheet_annual", "balance_sheet_quarterly"} ->
            "balance-sheet-statement"
      [] type \in {"cashflow_annual", "cashflow_quarterly"} -> "cash-flow-statement"

\* C14: in get_financial_statement each of the six financial types leads to
\* exactly one request, to income-statement, balance-sheet-statement or
\* cash-flow-statement as the type's prefix says, for the given ticker, with
\* period="annual" for the *_annual types and period="quarter" for the
\* *_quarterly types; no other financial_type leads to a request.
C14_OneTemplatePerType ==
    StatementDone
    => IF call.args.subtype \in AnnualTypes \cup QuarterlyTypes
       THEN /\ Len(requests) = 1
            /\ requests[1].url = <<ApiV3, Statement(call.args.subtype), call.args.ticker>>
            /\ requests[1].params.period =
                  (IF call.args.subtype \in AnnualTypes THEN "annual" ELSE "quarter")
       ELSE requests = <<>>

\* The quarterly cash-flow statement was requested.
C14_Witness ==
    /\ StatementDone
    /\ call.args.subtype = "cashflow_quarterly"
    /\ Len(requests) = 1
    /\ requests[1].url[2] = "cash-flow-statement"
    /\ requests[1].params.period = "quarter"

-----------------------------------------------------------------------------
(* Independence of invocations.                                            *)

\* What the caller and upstream saw of the invocation that is done.
Observed == [requests |-> requests, outcome |-> outcome, result |-> result]

\* The responses upstream gave to the invocation's requests, followed by the
\* ones it would give to requests the invocation did not make.
Upstream == responses \o <<Response("Timeout", JNull), Response("Timeout", JNull)>>

-----------------------------------------------------------------------------
(* get_historical_stock_prices: the interval and the endpoint.             *)

\* The intervals the tool description lists: minute- and hour-level ones, and
\* daily-or-coarser ones.
DocumentedIntraday == {"1m", "2m", "5m", "15m", "30m", "60m", "90m", "1h"}

DocumentedDaily == {"1d", "5d", "1wk", "1mo", "3mo"}

\* C16: in get_historical_stock_prices, for every interval the tool
\* description lists, a minute- or hour-level interval is requested from the
\* intraday historical-chart endpoint for that interval, and a
\* daily-or-coarser interval from the daily historical-price-full endpoint.
C16_IntervalDeterminesEndpoint ==
    Done /\ Tool("get_historical_stock_prices") /\ KeyPresent
    => /\ call.args.interval \in DocumentedIntraday
          => /\ Len(requests[1].url) = 4
             /\ requests[1].url[2] = "historical-chart"
             /\ requests[1].url[4] = call.args.ticker
       /\ call.args.interval \in DocumentedDaily
          => requests[1].url = <<ApiV3, "historical-price-full", call.args.ticker>>

-----------------------------------------------------------------------------
(* Sub-types that differ only in letter case.                              *)

\* The tools that lower-case the sub-type to look up the endpoint.
LowerCasing ==
    {"get_calendar_data", "get_shares_float_info", "get_ma_data", "get_executive_info",
     "get_economic_data", "get_price_target_info"}

\* The same invocation with its sub-type written in lower case, up to the
\* point where upstream answers.
InLowerCase ==
    Handler(call.tool, environ, [call.args EXCEPT !.subtype = Lower(@)], now,
            <<Response("ok", JList(<<>>))>>)

\* C17: for the tools that lower-case the sub-type for the endpoint lookup,
\* an invocation behaves as the invocation whose sub-type differs only in
\* letter case (here: is all lower case) and whose other arguments are equal:
\* the same outcome of parameter validation and, when a request is issued,
\* the same endpoint with the same query parameters.
C17_LetterCaseIrrelevant ==
    Done /\ call.tool \in LowerCasing /\ KeyPresent
    => /\ requests = InLowerCase.requests
       /\ requests = <<>> => result = InLowerCase.result

====
